---- MODULE Spec2Model ----
(***************************************************************************)
(* Model of src/apple_health_dashboard/app.py: the Dash callback           *)
(* update_output (archive extraction, time-range filter, graph and table   *)
(* payloads) and the Flask teardown handler teardown_df that persists the  *)
(* request's dataset to LAST_DATA_PATH.                                    *)
(*                                                                         *)
(* Optional values (Python None / a missing file / a key absent from g)    *)
(* are sequences of length 0 or 1.  A DataFrame is the sequence of its     *)
(* rows.  A timestamp is a number of ticks, TicksPerDay ticks to the day;  *)
(* tick 0 of a day is its midnight.  The '%Y-%m-%d' string of a timestamp  *)
(* is represented by the number of its day (same order, same equality).    *)
(***************************************************************************)
EXTENDS Integers, Sequences, FiniteSets

\* last_data   the frame pickled at LAST_DATA_PATH (None: no such file)
\* g_df        the 'df' entry of flask.g in the current application context
\* pc          "idle" between requests, "teardown" once the callback ended
\*             and its application context is still to be popped
\* req         the arguments of the last callback invocation
\* view        the filtered frame of line 102 (None: the line was not reached)
\* response    how the callback ended and the payloads it returned
\* lastParsed  history variable: the frame of the last upload that parsed
VARIABLES last_data, g_df, pc, req, view, response, lastParsed

vars == <<last_data, g_df, pc, req, view, response, lastParsed>>

(* ------------------------------ bounds --------------------------------- *)
TicksPerDay == 2
MaxUploadRecords == 2
MaxFilterRecords == 3
MaxTableRecords == 4

(* ----------------------- constants of the program ---------------------- *)
TimeRange(label, value, delta) == [label |-> label, value |-> value, delta |-> delta]

timedelta(days) == days * TicksPerDay

TIME_RANGE_TABLE ==
    << TimeRange("Entire duration", -1, <<>>),
       TimeRange("One year", 1, <<timedelta(365)>>),
       TimeRange("Six months", 2, <<timedelta(183)>>),
       TimeRange("One month", 3, <<timedelta(31)>>) >>

RecordType ==
    [ SBP |-> "HKQuantityTypeIdentifierBloodPressureSystolic",
      DBP |-> "HKQuantityTypeIdentifierBloodPressureDiastolic",
      HR  |-> "HKQuantityTypeIdentifierHeartRate",
      BM  |-> "HKQuantityTypeIdentifierBodyMass" ]

RecordTypeValues == {RecordType[n] : n \in DOMAIN RecordType}

\* A record type of the export that the dashboard does not select.
OtherType == "HKQuantityTypeIdentifierStepCount"

(* ------------------------------ helpers -------------------------------- *)
None == <<>>
Some(x) == <<x>>

Range(s) == {s[i] : i \in DOMAIN s}

SeqsUpTo(S, n) == UNION {[1..k -> S] : k \in 1..n}

Stamp(day, tick) == day * TicksPerDay + tick

\* Series.min() / Series.max() of the startDate column of a non-empty frame.
MinStartDate(df) ==
    CHOOSE m \in {df[i].startDate : i \in DOMAIN df} :
        \A i \in DOMAIN df : m <= df[i].startDate

MaxStartDate(df) ==
    CHOOSE m \in {df[i].startDate : i \in DOMAIN df} :
        \A i \in DOMAIN df : m >= df[i].startDate

\* Variant: the boundary is not truncated to midnight.
ReplaceToMidnight_Untruncated(ts) == ts

\* Timestamp.replace(hour=0, minute=0, second=0, microsecond=0, nanosecond=0)
ReplaceToMidnight(ts) == ts - (ts % TicksPerDay)

\* Series.dt.strftime('%Y-%m-%d')
strftime(ts) == (ts - (ts % TicksPerDay)) \div TicksPerDay

(* --------------------------- parse_contents ---------------------------- *)
\* Variant: the existence of export.xml is not tested and opening it raises.
parse_contents_NoExistsTest(contents) ==
    IF contents.kind = "None" THEN [status |-> "None", df |-> <<>>]
    ELSE IF contents.kind \in {"not_a_zip", "zip_without_export"}
    THEN [status |-> "raise", df |-> <<>>]
    ELSE LET selected == SelectSeq(contents.elems,
                                   LAMBDA e : e.type \in RecordTypeValues)
         IN  IF selected = <<>>
             THEN [status |-> "raise", df |-> <<>>]
             ELSE [status |-> "df",
                   df |-> [i \in DOMAIN selected |->
                             [type |-> selected[i].type,
                              startDate |-> selected[i].startDate,
                              value |-> selected[i].value,
                              date |-> strftime(selected[i].startDate)]]]

\* contents: [kind, elems].  kind "None": the callback got no upload;
\* "not_a_zip": the bytes are no readable archive or export.xml is no
\* parseable markup; "zip_without_export": an archive without
\* apple_health_export/export.xml; "export": an archive whose export.xml
\* holds the Record elements elems.
\* Result: [status, df].  status "raise": an exception leaves the function.
parse_contents(contents) ==
    IF contents.kind = "None" THEN [status |-> "None", df |-> <<>>]
    ELSE IF contents.kind = "not_a_zip" THEN [status |-> "raise", df |-> <<>>]
    ELSE IF contents.kind = "zip_without_export" THEN [status |-> "None", df |-> <<>>]
    ELSE LET selected == SelectSeq(contents.elems,
                                   LAMBDA e : e.type \in RecordTypeValues)
         IN  IF selected = <<>>
             THEN \* pd.read_xml: the xpath returns no nodes
                  [status |-> "raise", df |-> <<>>]
             ELSE [status |-> "df",
                   df |-> [i \in DOMAIN selected |->
                             [type |-> selected[i].type,
                              startDate |-> selected[i].startDate,
                              value |-> selected[i].value,
                              date |-> strftime(selected[i].startDate)]]]

(* ----------------------------- build_graph ----------------------------- *)
\* The x/y columns of one trace: startDate against value.
Trace(df) == [i \in DOMAIN df |-> [x |-> df[i].startDate, y |-> df[i].value]]

build_graph(df) ==
    LET df_bp == SelectSeq(df, LAMBDA r : r.type = RecordType.SBP
                                          \/ r.type = RecordType.DBP)
        df_hr == SelectSeq(df, LAMBDA r : r.type = RecordType.HR)
        df_bm == SelectSeq(df, LAMBDA r : r.type = RecordType.BM)
    IN  [BP |-> Trace(df_bp), HR |-> Trace(df_hr), BM |-> Trace(df_bm),
         hlines |-> <<120, 80>>]

(* ----------------------------- build_table ----------------------------- *)
\* Two rows of the frame share the pivot key (index, column) = (date, type).
HasDuplicateKey(df) ==
    \E i, j \in DOMAIN df :
        i < j /\ df[i].date = df[j].date /\ df[i].type = df[j].type

\* The distinct dates of the frame in increasing order (the pivot's index).
PivotIndex(df) ==
    LET D == {df[i].date : i \in DOMAIN df}
    IN  [k \in 1..Cardinality(D) |->
            CHOOSE d \in D : Cardinality({e \in D : e < d}) = k - 1]

\* The four selected identifiers in the lexicographic order pandas sorts
\* the pivot's columns in.
SortedTypeValues ==
    << RecordType.DBP, RecordType.SBP, RecordType.BM, RecordType.HR >>

\* Variant: pivot_table(aggfunc='last') semantics, the last record of a
\* (date, type) pair wins and nothing is raised.
pivot_LastWins(df) ==
    LET index == PivotIndex(df)
        types == SelectSeq(SortedTypeValues,
                           LAMBDA t : \E i \in DOMAIN df : df[i].type = t)
        Last(d, t) == CHOOSE i \in DOMAIN df :
                          /\ df[i].date = d /\ df[i].type = t
                          /\ \A j \in DOMAIN df :
                                df[j].date = d /\ df[j].type = t => j <= i
        Cell(d, t) ==
            IF \E i \in DOMAIN df : df[i].date = d /\ df[i].type = t
            THEN Some(df[Last(d, t)].value)
            ELSE None
    IN  [raised |-> FALSE,
         columns |-> <<"date">> \o types,
         data |-> [k \in DOMAIN index |->
                     <<Some(index[k])>> \o
                     [c \in DOMAIN types |-> Cell(index[k], types[c])]]]

\* df.pivot(index='date', columns='type', values='value').reset_index():
\* a frame [columns, data]; a cell is None (NaN) or Some(value).
\* raised: pandas refuses to reshape an index with duplicate entries.
pivot(df) ==
    IF HasDuplicateKey(df)
    THEN [raised |-> TRUE, columns |-> <<>>, data |-> <<>>]
    ELSE LET index == PivotIndex(df)
             types == SelectSeq(SortedTypeValues,
                                LAMBDA t : \E i \in DOMAIN df : df[i].type = t)
             Cell(d, t) ==
                 IF \E i \in DOMAIN df : df[i].date = d /\ df[i].type = t
                 THEN Some((CHOOSE r \in Range(df) : r.date = d /\ r.type = t).value)
                 ELSE None
         IN  [raised |-> FALSE,
              columns |-> <<"date">> \o types,
              data |-> [k \in DOMAIN index |->
                          <<Some(index[k])>> \o
                          [c \in DOMAIN types |-> Cell(index[k], types[c])]]]

\* df_pivot.rename(columns={...}, inplace=True)
RenameColumn(c) ==
    IF c = "date" THEN "Date"
    ELSE IF c = RecordType.SBP THEN "SBP"
    ELSE IF c = RecordType.DBP THEN "DBP"
    ELSE IF c = RecordType.HR THEN "HR"
    ELSE IF c = RecordType.BM THEN "BM"
    ELSE c

rename(frame) ==
    [frame EXCEPT !.columns = [c \in DOMAIN frame.columns |->
                                  RenameColumn(frame.columns[c])]]

\* Variant: the columns stay as the pivot produced them.
reindex_Skipped(frame, labels) == frame

\* DataFrame.reindex(columns=labels): the named columns in the given order,
\* a column the frame lacks filled with NaN.
reindex(frame, labels) ==
    LET Pos(l) == CHOOSE c \in DOMAIN frame.columns : frame.columns[c] = l
    IN  [columns |-> labels,
         data |-> [k \in DOMAIN frame.data |->
                     [c \in DOMAIN labels |->
                        IF labels[c] \in Range(frame.columns)
                        THEN frame.data[k][Pos(labels[c])]
                        ELSE None]]]

TableColumns == <<"Date", "SBP", "DBP", "HR", "BM">>

\* Result: [raised, table]; raised is the pivot's duplicate-entries error.
build_table(df) ==
    LET df_pivot == pivot(df)
    IN  IF df_pivot.raised
        THEN [raised |-> TRUE, table |-> None]
        ELSE [raised |-> FALSE,
              table |-> Some(reindex(rename([columns |-> df_pivot.columns,
                                             data |-> df_pivot.data]),
                                     TableColumns))]

(* ----------------------- update_output, lines 91-103 ------------------- *)
\* Variant: the assertion is stripped and the loop variable keeps the last
\* entry of the table.
ResolveTimeRange_FallThrough(time_range) ==
    IF \E k \in DOMAIN TIME_RANGE_TABLE : TIME_RANGE_TABLE[k].value = time_range
    THEN CHOOSE k \in DOMAIN TIME_RANGE_TABLE :
            /\ TIME_RANGE_TABLE[k].value = time_range
            /\ \A j \in 1..(k - 1) : TIME_RANGE_TABLE[j].value # time_range
    ELSE Len(TIME_RANGE_TABLE)

\* The for/else over TIME_RANGE_TABLE: the position of the entry whose value
\* is the selector, 0 when the loop ends without a break (assert False).
ResolveTimeRange(time_range) ==
    IF \E k \in DOMAIN TIME_RANGE_TABLE : TIME_RANGE_TABLE[k].value = time_range
    THEN CHOOSE k \in DOMAIN TIME_RANGE_TABLE :
            /\ TIME_RANGE_TABLE[k].value = time_range
            /\ \A j \in 1..(k - 1) : TIME_RANGE_TABLE[j].value # time_range
    ELSE 0

\* start_date as of line 102, for the table entry tr.
StartDate(df, tr) ==
    IF tr.delta # None
    THEN ReplaceToMidnight(MaxStartDate(df) - tr.delta[1])
    ELSE MinStartDate(df)

\* Variant: the comparison is strict.
FilterRows_Strict(df, start_date) ==
    SelectSeq(df, LAMBDA r : r.startDate > start_date)

\* g.df[g.df['startDate'] >= start_date]
FilterRows(df, start_date) ==
    SelectSeq(df, LAMBDA r : r.startDate >= start_date)

\* Lines 91-103 on the frame df held in g.df.
\* status: "returned" | "AssertionError" | "ValueError".
Reshape(df, time_range) ==
    LET k == ResolveTimeRange(time_range)
    IN  IF k = 0
        THEN [status |-> "AssertionError", view |-> None,
              graph |-> None, table |-> None]
        ELSE LET filtered == FilterRows(df, StartDate(df, TIME_RANGE_TABLE[k]))
                 graph == build_graph(filtered)
                 built == build_table(filtered)
             IN  IF built.raised
                 THEN [status |-> "ValueError", view |-> Some(filtered),
                       graph |-> None, table |-> None]
                 ELSE [status |-> "returned", view |-> Some(filtered),
                       graph |-> Some(graph), table |-> built.table]

(* ------------------------------ update_output -------------------------- *)
\* Variant: the pickled frame is never read back.
load_df_NoFallback(parsed, g, file) ==
    IF parsed.status = "df"
    THEN [g |-> Some(parsed.df), returned |-> FALSE]
    ELSE IF g = None
    THEN [g |-> g, returned |-> TRUE]
    ELSE [g |-> g, returned |-> FALSE]

\* Variant: a frame parsed from the upload is kept only when nothing is
\* cached yet.
load_df_KeepFirst(parsed, g, file) ==
    IF parsed.status = "df" /\ file = None
    THEN [g |-> Some(parsed.df), returned |-> FALSE]
    ELSE IF g = None
    THEN IF file # None
         THEN [g |-> file, returned |-> FALSE]
         ELSE [g |-> g, returned |-> TRUE]
    ELSE [g |-> g, returned |-> FALSE]

\* Lines 82-89.  parsed: the result of parse_contents; g: the 'df' entry of
\* flask.g (None: absent); file: the content of LAST_DATA_PATH (None: the
\* file does not exist).  Result: g's 'df' entry afterwards, and whether
\* line 89 returned (None, None).
load_df(parsed, g, file) ==
    IF parsed.status = "df"
    THEN [g |-> Some(parsed.df), returned |-> FALSE]
    ELSE IF g = None
    THEN IF file # None
         THEN [g |-> file, returned |-> FALSE]
         ELSE [g |-> g, returned |-> TRUE]
    ELSE [g |-> g, returned |-> FALSE]

\* Variant: the filtered frame is assigned back to g.df.
update_output_StoresView(contents, time_range, g, file) ==
    LET parsed == parse_contents(contents)
        nothing == [status |-> "returned", view |-> None,
                    graph |-> None, table |-> None]
    IN  IF parsed.status = "raise"
        THEN [g |-> g, out |-> [nothing EXCEPT !.status = "IngestError"]]
        ELSE LET loaded == load_df(parsed, g, file)
                 out == Reshape(loaded.g[1], time_range)
             IN  IF loaded.returned
                 THEN [g |-> loaded.g, out |-> nothing]
                 ELSE [g |-> IF out.view # None THEN out.view ELSE loaded.g,
                       out |-> out]

\* Result: the 'df' entry of g when the callback ends, and its outcome
\* out = [status, view, graph, table], status "returned" or the exception
\* that left the callback.
update_output(contents, time_range, g, file) ==
    LET parsed == parse_contents(contents)
        nothing == [status |-> "returned", view |-> None,
                    graph |-> None, table |-> None]
    IN  IF parsed.status = "raise"
        THEN [g |-> g, out |-> [nothing EXCEPT !.status = "IngestError"]]
        ELSE LET loaded == load_df(parsed, g, file)
             IN  IF loaded.returned
                 THEN [g |-> loaded.g, out |-> nothing]
                 ELSE [g |-> loaded.g, out |-> Reshape(loaded.g[1], time_range)]

(* ------------------------------ teardown_df ---------------------------- *)
\* Variant: nothing is persisted when the request ended in an exception.
teardown_df_SkipOnException(exception, g, file) ==
    IF g # None /\ exception = None THEN g ELSE file

\* The content of LAST_DATA_PATH after teardown_df(exception) popped g's
\* 'df' entry; exception is None or Some(name of the request's exception).
teardown_df(exception, g, file) == IF g # None THEN g ELSE file

(* ------------------------------ requests ------------------------------- *)
Element(type, startDate, value) ==
    [type |-> type, startDate |-> startDate, value |-> value]

\* Record elements of the uploaded exports: two body-mass records of the
\* same day, a systolic record more than a month later, and a step count.
UploadElements ==
    { Element(RecordType.BM, Stamp(0, 0), 1),
      Element(RecordType.BM, Stamp(0, TicksPerDay - 1), 2),
      Element(RecordType.SBP, Stamp(32, 0), 1),
      Element(OtherType, Stamp(32, 0), 1) }

NoContents == [kind |-> "None", elems |-> <<>>]

UploadContents ==
    { NoContents,
      [kind |-> "not_a_zip", elems |-> <<>>],
      [kind |-> "zip_without_export", elems |-> <<>>] }
    \cup { [kind |-> "export", elems |-> e] :
             e \in SeqsUpTo(UploadElements, MaxUploadRecords) }

\* The selector values of the radio items, and two values outside the table.
TimeRangeInputs == {-1, 0, 1, 2, 3, 4}

Outcome(out) == [status |-> out.status, graph |-> out.graph, table |-> out.table]

Exception(status) == IF status = "returned" THEN None ELSE Some(status)

Init ==
    /\ last_data = None
    /\ g_df = None
    /\ pc = "idle"
    /\ req = [contents |-> NoContents, time_range |-> -1]
    /\ view = None
    /\ response = [status |-> "none", graph |-> None, table |-> None]
    /\ lastParsed = None

\* One callback invocation, in a fresh application context.
UpdateOutput(contents, time_range) ==
    /\ pc = "idle"
    /\ LET r == update_output(contents, time_range, g_df, last_data)
           parsed == parse_contents(contents)
       IN  /\ g_df' = r.g
           /\ view' = r.out.view
           /\ response' = Outcome(r.out)
           /\ lastParsed' = IF parsed.status = "df" THEN Some(parsed.df)
                            ELSE lastParsed
    /\ req' = [contents |-> contents, time_range |-> time_range]
    /\ pc' = "teardown"
    /\ UNCHANGED last_data

\* The application context of the request is popped.
TeardownDf ==
    /\ pc = "teardown"
    /\ last_data' = teardown_df(Exception(response.status), g_df, last_data)
    /\ g_df' = None
    /\ pc' = "idle"
    /\ UNCHANGED <<req, view, response, lastParsed>>

Request == \E contents \in UploadContents, time_range \in TimeRangeInputs :
               UpdateOutput(contents, time_range)

Next == Request \/ TeardownDf

Spec == Init /\ [][Next]_vars

(* --------------- the filter of lines 91-102 on its own ----------------- *)
\* Days around each lookback boundary of a data set whose latest day is
\* one day more than the lookback.
FilterDays ==
    {0, 1, 2} \cup
    { 1 + (TIME_RANGE_TABLE[k].delta[1] \div TicksPerDay) :
        k \in {j \in DOMAIN TIME_RANGE_TABLE : TIME_RANGE_TABLE[j].delta # None} }

FilterElements ==
    { Element(RecordType.HR, Stamp(d, t), 1) :
        d \in FilterDays, t \in {0, TicksPerDay - 1} }

FilterFrames ==
    { parse_contents([kind |-> "export", elems |-> e]).df :
        e \in SeqsUpTo(FilterElements, MaxFilterRecords) }

FilterInit ==
    /\ last_data = None
    /\ lastParsed = None
    /\ pc = "reshape_input"
    /\ \E df \in FilterFrames : g_df = Some(df)
    /\ \E k \in DOMAIN TIME_RANGE_TABLE :
          req = [contents |-> NoContents, time_range |-> TIME_RANGE_TABLE[k].value]
    /\ view = None
    /\ response = [status |-> "none", graph |-> None, table |-> None]

ReshapeStep ==
    /\ pc = "reshape_input"
    /\ LET out == Reshape(g_df[1], req.time_range)
       IN  /\ view' = out.view
           /\ response' = Outcome(out)
    /\ pc' = "reshape_done"
    /\ UNCHANGED <<last_data, g_df, req, lastParsed>>

FilterNext == ReshapeStep

FilterSpec == FilterInit /\ [][FilterNext]_vars

(* ------------------------ build_table on its own ----------------------- *)
\* Each metric measured at midnight and late on day 0 and at midnight on
\* day 1.
TableElements ==
    { Element(t, sv[1], sv[2]) :
        t \in RecordTypeValues,
        sv \in { <<Stamp(0, 0), 1>>, <<Stamp(0, TicksPerDay - 1), 2>>,
                 <<Stamp(1, 0), 1>> } }

TableFrames ==
    { parse_contents([kind |-> "export", elems |-> e]).df :
        e \in SeqsUpTo(TableElements, MaxTableRecords) }

TableInit ==
    /\ last_data = None
    /\ lastParsed = None
    /\ g_df = None
    /\ pc = "table_input"
    /\ req = [contents |-> NoContents, time_range |-> -1]
    /\ \E df \in TableFrames : view = Some(df)
    /\ response = [status |-> "none", graph |-> None, table |-> None]

BuildTableStep ==
    /\ pc = "table_input"
    /\ LET built == build_table(view[1])
       IN  response' = [status |-> IF built.raised THEN "ValueError" ELSE "returned",
                        graph |-> None,
                        table |-> built.table]
    /\ pc' = "table_done"
    /\ UNCHANGED <<last_data, g_df, req, view, lastParsed>>

TableNext == BuildTableStep

TableSpec == TableInit /\ [][TableNext]_vars

(* ============================== properties ============================= *)
Count(seq, r) == Cardinality({i \in DOMAIN seq : seq[i] = r})

\* The lookback of the duration-based options, in days, by selector value.
LookbackDays(time_range) ==
    CASE time_range = 1 -> 365
      [] time_range = 2 -> 183
      [] time_range = 3 -> 31

\* Midnight of the day that lies `days` days before the latest day of df.
Boundary(df, days) ==
    LET latest == CHOOSE d \in {df[i].date : i \in DOMAIN df} :
                      \A i \in DOMAIN df : df[i].date <= d
    IN  Stamp(latest - days, 0)

ParsedUpload == parse_contents(req.contents)

NothingReturned ==
    /\ response = [status |-> "returned", graph |-> None, table |-> None]
    /\ view = None

\* C1: with a duration-based option (One year 365 days, Six months 183 days,
\* One month 31 days) the filtered view holds exactly the records of the
\* stored RecordSet whose startDate is at or after midnight of the day
\* (latest startDate - lookback): each such record as often as the
\* RecordSet holds it, and no record before that boundary.
C1_DurationFilterExact ==
    (pc = "reshape_done" /\ req.time_range \in {1, 2, 3}) =>
        /\ view # None
        /\ LET df == g_df[1]
               B == Boundary(df, LookbackDays(req.time_range))
           IN  \A r \in Range(df) \cup Range(view[1]) :
                   Count(view[1], r) = IF r.startDate >= B THEN Count(df, r) ELSE 0

\* A record earlier in its day than the latest record is in its own, exactly
\* one lookback before, is kept, and an older record is dropped.
C1_Witness ==
    /\ pc = "reshape_done" /\ req.time_range \in {1, 2, 3}
    /\ view # None
    /\ LET df == g_df[1]
           exact == MaxStartDate(df) - LookbackDays(req.time_range) * TicksPerDay
       IN  \E i, j \in DOMAIN df :
              /\ df[i].startDate < exact
              /\ df[i] \in Range(view[1])
              /\ df[j] \notin Range(view[1])

\* C6: with "Entire duration" (selector -1) the filtered view is the stored
\* RecordSet itself, every record kept and none added.
C6_EntireDurationIsIdentity ==
    (pc = "reshape_done" /\ req.time_range = -1) => view = g_df

C6_Witness ==
    /\ pc = "reshape_done" /\ req.time_range = -1
    /\ view = g_df
    /\ Cardinality({g_df[1][i].startDate : i \in DOMAIN g_df[1]}) >= 2

\* C2: when two or more records of the filtered set share a (day, type)
\* pair, build_table ends in the duplicate-key error and yields no table.
C2_DuplicateKeyFails ==
    (pc = "table_done"
       /\ Cardinality({<<strftime(r.startDate), r.type>> : r \in Range(view[1])})
            < Len(view[1]))
    => (response.status = "ValueError" /\ response.table = None)

\* Two body-mass records of one day with different values.
C2_Witness ==
    /\ pc = "table_done"
    /\ response.status = "ValueError"
    /\ \E i, j \in DOMAIN view[1] :
          /\ view[1][i].type = RecordType.BM /\ view[1][j].type = RecordType.BM
          /\ strftime(view[1][i].startDate) = strftime(view[1][j].startDate)
          /\ view[1][i].value # view[1][j].value

\* C7: when no two records of the filtered set share a (day, type) pair,
\* build_table yields the columns Date, SBP, DBP, HR, BM in that order and
\* one row per distinct day; a metric's cell holds the value of that day's
\* record of that type and is empty when the day has none.
C7_TableShape ==
    (pc = "table_done"
       /\ Cardinality({<<strftime(r.startDate), r.type>> : r \in Range(view[1])})
            = Len(view[1]))
    => /\ response.status = "returned"
       /\ response.table # None
       /\ response.table[1].columns = <<"Date", "SBP", "DBP", "HR", "BM">>
       /\ LET rows == response.table[1].data
              df == view[1]
              days == {strftime(r.startDate) : r \in Range(df)}
              metric == <<"SBP", "DBP", "HR", "BM">>
          IN  /\ Len(rows) = Cardinality(days)
              /\ \A k \in DOMAIN rows : Len(rows[k]) = 5
              /\ {rows[k][1] : k \in DOMAIN rows} = {Some(d) : d \in days}
              /\ \A k \in DOMAIN rows : \A m \in 1..4 :
                    LET of == {r \in Range(df) :
                                  /\ Some(strftime(r.startDate)) = rows[k][1]
                                  /\ r.type = RecordType[metric[m]]}
                    IN  rows[k][m + 1] = IF of = {} THEN None
                                         ELSE Some((CHOOSE r \in of : TRUE).value)

\* One record of each of the four types on one day: a single full row.
C7_Witness ==
    /\ pc = "table_done"
    /\ response.table # None
    /\ Len(response.table[1].data) = 1
    /\ \A c \in 1..5 : response.table[1].data[1][c] # None
    /\ \E m \in 2..5 : response.table[1].data[1][m] = Some(2)

\* C3 as stated: an archive without apple_health_export/export.xml makes
\* update_output return nothing for both payloads, whatever is cached.
C3_Original ==
    (pc = "teardown" /\ req.contents.kind = "zip_without_export")
    => NothingReturned

\* C3 amended: an archive without apple_health_export/export.xml yields the
\* no-result sentinel without raising, and the request is served like one
\* without content: nothing for both payloads when no dataset is cached,
\* else the reshaper's outcome on the cached RecordSet.
C3_MissingExportFallsBack ==
    (pc = "teardown" /\ req.contents.kind = "zip_without_export")
    => /\ ParsedUpload.status = "None"
       /\ response.status # "IngestError"
       /\ last_data = None => NothingReturned
       /\ last_data # None =>
            LET out == Reshape(last_data[1], req.time_range)
            IN  view = out.view /\ response = Outcome(out)

C3_Witness ==
    /\ pc = "teardown" /\ req.contents.kind = "zip_without_export"
    /\ last_data # None
    /\ response.status = "returned"
    /\ response.graph # None /\ response.table # None

\* C4: between requests the cached slot holds exactly the RecordSet of the
\* most recent upload that parsed, and nothing before the first such upload.
C4_SlotIsLastParsed ==
    pc = "idle" => last_data = lastParsed

\* A request that parsed nothing has left an earlier upload in the slot.
C4_Witness ==
    /\ pc = "idle"
    /\ req.contents.kind \in {"None", "zip_without_export", "not_a_zip"}
    /\ last_data # None /\ last_data = lastParsed
    /\ Len(last_data[1]) = 2

\* C5: a request without content returns nothing for both payloads, with
\* no error, when no dataset is cached; else its outcome is the reshaper's
\* on the most recently extracted RecordSet with the requested time range.
C5_NoContentUsesCache ==
    (pc = "teardown" /\ req.contents.kind = "None")
    => /\ last_data = None => NothingReturned
       /\ last_data # None =>
            /\ last_data = lastParsed
            /\ LET out == Reshape(lastParsed[1], req.time_range)
               IN  view = out.view /\ response = Outcome(out)

C5_Witness ==
    /\ pc = "teardown" /\ req.contents.kind = "None"
    /\ last_data # None /\ req.time_range = 3
    /\ response.table # None /\ response.graph # None
    /\ Len(view[1]) < Len(last_data[1])

\* C8: a request that filters leaves in g.df the whole RecordSet it
\* filtered (the parsed upload, else the cached one), and teardown_df
\* persists that RecordSet, the records left out of the view included.
C8_FilterLeavesRecordSet ==
    [][ /\ (pc = "idle" /\ pc' = "teardown" /\ view' # None) =>
              g_df' = IF parse_contents(req'.contents).status = "df"
                      THEN Some(parse_contents(req'.contents).df)
                      ELSE last_data
        /\ (pc = "teardown" /\ pc' = "idle" /\ view # None) =>
              last_data' = g_df
      ]_vars

\* Records left out of the last view are still stored.
C8_Witness ==
    /\ pc = "idle"
    /\ view # None /\ last_data # None
    /\ Len(view[1]) < Len(last_data[1])
    /\ \E r \in Range(last_data[1]) : r \notin Range(view[1])

\* C9: with a dataset at hand and a selector outside -1, 1, 2, 3 the
\* callback ends in the assertion error: no filter, no plot, no table.
C9_InvalidSelectorAsserts ==
    (pc = "teardown" /\ g_df # None /\ req.time_range \notin {-1, 1, 2, 3})
    => /\ response = [status |-> "AssertionError", graph |-> None, table |-> None]
       /\ view = None

C9_Witness ==
    /\ pc = "teardown" /\ g_df # None /\ req.time_range = 4
    /\ response.status = "AssertionError"
    /\ Len(g_df[1]) = 2

\* C10: when an upload parses and the reshaper then fails (invalid selector
\* or duplicate (date, type) key), g.df already holds the parsed RecordSet
\* and teardown_df writes it to the cached slot.
C10_FailedRequestStillStores ==
    (req.contents.kind = "export" /\ ParsedUpload.status = "df"
       /\ response.status \in {"AssertionError", "ValueError"})
    => /\ pc = "teardown" => g_df = Some(ParsedUpload.df)
       /\ pc = "idle" => last_data = Some(ParsedUpload.df)

\* A request that failed on a duplicate key has left its upload in the slot.
C10_Witness ==
    /\ pc = "idle"
    /\ req.contents.kind = "export" /\ ParsedUpload.status = "df"
    /\ response.status = "ValueError"
    /\ last_data = Some(ParsedUpload.df)

====
